---- MODULE Spec2Model ----
(***************************************************************************)
(* Model of the classroom scoreboard (src/app.js): the ScoreboardState     *)
(* object, its localStorage record, the clock, the two timers and the      *)
(* event handlers that drive them.                                         *)
(*                                                                         *)
(* JavaScript values are modelled as tagged records so that undefined,     *)
(* null, NaN, Infinity and integers stay distinct; the stored string is    *)
(* modelled by its JSON content (a separate set of tags), and              *)
(* JSON.stringify / JSON.parse are the conversions between the two.        *)
(* The stored string of the first visit is any of InitialBlobs: the store  *)
(* is shared with whatever wrote to the origin before.  localStorage       *)
(* either works, or rejects every write, or rejects reads and writes, for  *)
(* the whole run.  A timer callback runs at its due instant or at any time  *)
(* after it (timers of a hidden or suspended page are late); the midnight  *)
(* timer's due instant is computed on the host's clock, whose zone need    *)
(* not be the configured one.                                              *)
(***************************************************************************)
EXTENDS Integers, Sequences, FiniteSets, TLC

\* ------------------------------------------------------------- CONFIG
LANES == 6
MAX_LEVELS == 20
TIMEZONE == "Asia/Taipei"

\* ------------------------------------------------------------- bounds
\* clock ticks per calendar day of the configured zone
TicksPerDay == 2
\* the clock stops advancing at this tick
MaxNow == 6
\* how many visibility timers may be pending at once
MaxVis == 2

\* ------------------------------------------------------------- JS values
Undef == [t |-> "undefined", n |-> 0]
Null == [t |-> "null", n |-> 0]
NaN == [t |-> "NaN", n |-> 0]
Inf == [t |-> "Infinity", n |-> 0]
Num(k) == [t |-> "number", n |-> k]

\* an array value, or a non-array value standing where an array is expected
Arr(s) == [t |-> "array", a |-> s]
NoArr(tag) == [t |-> tag, a |-> <<>>]

\* ToNumber, as the relational operators and ++ / -- apply it
ToNumber(v) ==
    IF v.t = "undefined" THEN NaN
    ELSE IF v.t = "null" THEN Num(0)
    ELSE v

\* x < y
JsLt(x, y) ==
    LET a == ToNumber(x)
        b == ToNumber(y)
    IN  IF a.t = "NaN" \/ b.t = "NaN" THEN FALSE
        ELSE IF a.t = "Infinity" THEN FALSE
        ELSE IF b.t = "Infinity" THEN TRUE
        ELSE a.n < b.n

\* x > y
JsGt(x, y) == JsLt(y, x)

\* x >= y
JsGe(x, y) ==
    LET a == ToNumber(x)
        b == ToNumber(y)
    IN  IF a.t = "NaN" \/ b.t = "NaN" THEN FALSE
        ELSE ~JsLt(x, y)

\* x + d for d in {1, -1} (the effect of ++ and --)
JsAdd(x, d) ==
    LET a == ToNumber(x)
    IN  IF a.t = "number" THEN Num(a.n + d) ELSE a

\* truthiness, as || tests it
Truthy(v) ==
    IF v.t \in {"undefined", "null", "NaN"} THEN FALSE
    ELSE IF v.t = "number" THEN v.n # 0
    ELSE TRUE

\* a || b
JsOr(a, b) == IF Truthy(a) THEN a ELSE b

\* arr[i]: undefined unless i is an integer index inside the array
Index(arr, i) ==
    IF arr.t = "array" /\ i.t = "number" /\ i.n >= 0 /\ i.n < Len(arr.a)
    THEN arr.a[i.n + 1]
    ELSE Undef

\* new Array(CONFIG.LANES).fill(0)
Zeros == Arr([i \in 1..LANES |-> Num(0)])

\* ------------------------------------------------------------- JSON text
\* tokens of the stored text: a key that is not there, null, an integer
\* numeral, and a numeral too large for a double (1e999)
KAbsent == [t |-> "absent", n |-> 0]
KNull == [t |-> "null", n |-> 0]
KHuge == [t |-> "1e999", n |-> 0]
KInt(k) == [t |-> "int", n |-> k]
KArr(s) == [t |-> "array", a |-> s]
KNoArr(tag) == [t |-> tag, a |-> <<>>]

\* JSON.parse of one scalar token
ParseTok(k) ==
    IF k.t = "int" THEN Num(k.n)
    ELSE IF k.t = "1e999" THEN Inf
    ELSE IF k.t = "null" THEN Null
    ELSE Undef

\* JSON.parse of the levels member
ParseLevels(k) ==
    IF k.t = "array" THEN Arr([i \in 1..Len(k.a) |-> ParseTok(k.a[i])])
    ELSE IF k.t = "null" THEN NoArr("null")
    ELSE NoArr("undefined")

\* JSON.stringify of an object member: undefined drops the key, a
\* non-finite number is written as null
StringifyMember(v) ==
    IF v.t = "number" THEN KInt(v.n)
    ELSE IF v.t = "undefined" THEN KAbsent
    ELSE KNull

\* JSON.stringify of an array element: undefined is written as null too
StringifyElem(v) ==
    IF v.t = "number" THEN KInt(v.n) ELSE KNull

\* JSON.stringify of the levels member
StringifyLevels(v) ==
    IF v.t = "array" THEN KArr([i \in 1..Len(v.a) |-> StringifyElem(v.a[i])])
    ELSE IF v.t = "null" THEN KNoArr("null")
    ELSE KNoArr("absent")

\* the stored string: no item, "", text that does not parse, the text
\* null, a bare number, or an object with the record's members (tz and
\* dateKey are strings, "" when the member is missing or empty)
Blob(kind, version, tz, dk, lv, mx, lu) ==
    [kind |-> kind, version |-> version, tz |-> tz, dateKey |-> dk,
     levels |-> lv, maxLevels |-> mx, lastUpdated |-> lu]
NonObject(kind) ==
    Blob(kind, KAbsent, "", "", KNoArr("absent"), KAbsent, KAbsent)

\* ------------------------------------------------------------- state
VARIABLES
    page,           \* "loading": app constructed, init() not run; "running"
    now,            \* the clock, in ticks (Date.now())
    storage,        \* localStorage[CONFIG.STORAGE_KEY]
    store,          \* localStorage's condition: "ok", "full" (setItem
                    \* raises) or "denied" (getItem and setItem raise)
    levels,         \* ScoreboardState fields
    maxLevels,
    timezone,
    dateKey,
    lastUpdated,
    isLocked,
    midnightTimer,  \* the handle this.midnightTimer: "null", or the
                    \* handle of a timer that is "armed" (pending), "fired"
                    \* or "cleared"
    midnightPending,\* midnight timers set and neither run nor cleared
    midnightDue,    \* the instant the pending midnight timer is due (0 when
                    \* none is pending)
    visPending,     \* visibility timers set and neither run nor cleared
    host,           \* the zone of the host's clock
    render,         \* what became of the step's render call: "none" (no
                    \* call), "done" or "TypeError"
    last            \* the latest step: the state method or callback that
                    \* ran, its lane argument, and what the state method
                    \* returned ("throw" when it raised)

vars == <<page, now, storage, store, levels, maxLevels, timezone, dateKey,
          lastUpdated, isLocked, midnightTimer, midnightPending, midnightDue,
          visPending, host, render, last>>

\* the two timers' bookkeeping
timers == <<midnightTimer, midnightPending, midnightDue, visPending>>

mem == <<levels, maxLevels, timezone, dateKey, lastUpdated, isLocked>>

\* ------------------------------------------------------------- clock
\* calendar dates as Intl.DateTimeFormat('en-CA') writes them, by day number
DayNames == <<"2022-12-30", "2022-12-31", "2023-01-01", "2023-01-02",
              "2023-01-03", "2023-01-04", "2023-01-05", "2023-01-06">>

\* the zone's distance from the configured zone, in ticks (New York is
\* about half a day behind Taipei; Kiritimati is hours ahead of it, so its
\* midnight falls in the tick before Taipei's)
ZoneOffset(tz) ==
    IF tz = "America/New_York" THEN 0 - 1
    ELSE IF tz = "Pacific/Kiritimati" THEN 1
    ELSE 0

\* day number of instant t in zone tz
DayOf(t, tz) == (t + ZoneOffset(tz)) \div TicksPerDay

\* todayKey() of a state whose timezone is tz
todayKey(tz) == DayNames[DayOf(now, tz) + 1]

\* the first instant of the model: the last tick of 2022-12-31 in Taipei
StartNow == 2 * TicksPerDay - 1
StartDay == DayOf(StartNow, TIMEZONE)

\* msUntilNextMidnight() of a state whose timezone is tz: the date of now
\* in tz, read as midnight on the host's clock, plus 24 hours, minus now
msUntilNextMidnight(tz) ==
    (DayOf(now, tz) * TicksPerDay - ZoneOffset(host)) + TicksPerDay - now

\* ------------------------------------------------------------- last call
Call(op, lane, ret) == [op |-> op, lane |-> lane, ret |-> ret]

\* localStorage.getItem returns, localStorage.setItem stores
ReadOk == store # "denied"
WriteOk == store = "ok"

\* ------------------------------------------------------------- ScoreboardState
\* the string save() hands to setItem for the given field values
Record(tz, dk, lv, mx) ==
    Blob("object", KInt(1), tz, dk, StringifyLevels(lv),
         StringifyMember(mx), KInt(now))

\* save(): writes the record of the state the method leaves; a failing
\* setItem is caught and leaves the stored string as it was
save ==
    storage' = IF WriteOk THEN Record(timezone', dateKey', levels', maxLevels')
               ELSE storage

\* resetForNewDay that a locked board refuses
resetForNewDayUnlessLocked ==
    IF isLocked
    THEN UNCHANGED <<levels, maxLevels, timezone, dateKey, lastUpdated,
                     storage>>
    ELSE /\ levels' = Zeros
         /\ dateKey' = todayKey(timezone)
         /\ lastUpdated' = Num(now)
         /\ UNCHANGED <<maxLevels, timezone>>
         /\ save

\* resetForNewDay()
resetForNewDay ==
    /\ levels' = Zeros
    /\ dateKey' = todayKey(timezone)
    /\ lastUpdated' = Num(now)
    /\ UNCHANGED <<maxLevels, timezone>>
    /\ save

\* matches without the version test
matchesAnyVersion(blob) ==
    /\ blob.kind = "object"
    /\ blob.dateKey = todayKey(timezone)

\* the string is non-empty and JSON.parse returns an object (for the text
\* null the read of data.dateKey raises, for a number the members are
\* undefined), and the condition of line 63 holds of it
matches(blob) ==
    /\ blob.kind = "object"
    /\ blob.dateKey = todayKey(timezone)
    /\ ParseTok(blob.version) = Num(1)

\* the fields lines 64-68 take from the parsed record
adopted(blob) ==
    [levels |-> ParseLevels(blob.levels),
     maxLevels |-> JsOr(ParseTok(blob.maxLevels), Num(MAX_LEVELS)),
     timezone |-> IF blob.tz # "" THEN blob.tz ELSE TIMEZONE,
     dateKey |-> blob.dateKey,
     lastUpdated |-> ParseTok(blob.lastUpdated)]

\* loadOrInit() returns true
Adopts == ReadOk /\ matches(storage)

\* loadOrInit that forgets the fresh-day fallback
loadOrInitNoFallback ==
    IF Adopts
    THEN /\ levels' = adopted(storage).levels
         /\ maxLevels' = adopted(storage).maxLevels
         /\ timezone' = adopted(storage).timezone
         /\ dateKey' = adopted(storage).dateKey
         /\ lastUpdated' = adopted(storage).lastUpdated
         /\ UNCHANGED storage
    ELSE UNCHANGED <<levels, maxLevels, timezone, dateKey, lastUpdated,
                     storage>>

\* loadOrInit()
loadOrInit ==
    IF Adopts
    THEN /\ levels' = adopted(storage).levels
         /\ maxLevels' = adopted(storage).maxLevels
         /\ timezone' = adopted(storage).timezone
         /\ dateKey' = adopted(storage).dateKey
         /\ lastUpdated' = adopted(storage).lastUpdated
         /\ UNCHANGED storage
    ELSE resetForNewDay

\* increment without the upper bound test
incrementNoBound(lane) ==
    IF isLocked \/ JsLt(lane, Num(0)) \/ JsGe(lane, Num(LANES))
    THEN /\ last' = Call("increment", lane, "false")
         /\ UNCHANGED <<mem, storage>>
    ELSE IF levels.t # "array"
    THEN /\ last' = Call("increment", lane, "throw")
         /\ UNCHANGED <<mem, storage>>
    ELSE /\ levels' = Arr([levels.a EXCEPT ![lane.n + 1] = JsAdd(@, 1)])
         /\ lastUpdated' = Num(now)
         /\ UNCHANGED <<maxLevels, timezone, dateKey, isLocked>>
         /\ save
         /\ last' = Call("increment", lane, "true")

\* increment(lane); the TypeError of this.levels[lane] on a levels that is
\* undefined or null leaves the call without a return value
increment(lane) ==
    IF isLocked \/ JsLt(lane, Num(0)) \/ JsGe(lane, Num(LANES))
    THEN /\ last' = Call("increment", lane, "false")
         /\ UNCHANGED <<mem, storage>>
    ELSE IF levels.t # "array"
    THEN /\ last' = Call("increment", lane, "throw")
         /\ UNCHANGED <<mem, storage>>
    ELSE IF JsLt(Index(levels, lane), maxLevels)
    THEN /\ levels' = Arr([levels.a EXCEPT ![lane.n + 1] = JsAdd(@, 1)])
         /\ lastUpdated' = Num(now)
         /\ UNCHANGED <<maxLevels, timezone, dateKey, isLocked>>
         /\ save
         /\ last' = Call("increment", lane, "true")
    ELSE /\ last' = Call("increment", lane, "false")
         /\ UNCHANGED <<mem, storage>>

\* decrement with the lower bound off by one (>= 0 for > 0)
decrementBelowZero(lane) ==
    IF isLocked \/ JsLt(lane, Num(0)) \/ JsGe(lane, Num(LANES))
    THEN /\ last' = Call("decrement", lane, "false")
         /\ UNCHANGED <<mem, storage>>
    ELSE IF levels.t # "array"
    THEN /\ last' = Call("decrement", lane, "throw")
         /\ UNCHANGED <<mem, storage>>
    ELSE IF JsGe(Index(levels, lane), Num(0))
    THEN /\ levels' = Arr([levels.a EXCEPT ![lane.n + 1] = JsAdd(@, 0 - 1)])
         /\ lastUpdated' = Num(now)
         /\ UNCHANGED <<maxLevels, timezone, dateKey, isLocked>>
         /\ save
         /\ last' = Call("decrement", lane, "true")
    ELSE /\ last' = Call("decrement", lane, "false")
         /\ UNCHANGED <<mem, storage>>

\* decrement(lane)
decrement(lane) ==
    IF isLocked \/ JsLt(lane, Num(0)) \/ JsGe(lane, Num(LANES))
    THEN /\ last' = Call("decrement", lane, "false")
         /\ UNCHANGED <<mem, storage>>
    ELSE IF levels.t # "array"
    THEN /\ last' = Call("decrement", lane, "throw")
         /\ UNCHANGED <<mem, storage>>
    ELSE IF JsGt(Index(levels, lane), Num(0))
    THEN /\ levels' = Arr([levels.a EXCEPT ![lane.n + 1] = JsAdd(@, 0 - 1)])
         /\ lastUpdated' = Num(now)
         /\ UNCHANGED <<maxLevels, timezone, dateKey, isLocked>>
         /\ save
         /\ last' = Call("decrement", lane, "true")
    ELSE /\ last' = Call("decrement", lane, "false")
         /\ UNCHANGED <<mem, storage>>

\* resetToday that also moves dateKey, as resetForNewDay does
resetTodayNewDay ==
    /\ levels' = Zeros
    /\ dateKey' = todayKey(timezone)
    /\ lastUpdated' = Num(now)
    /\ UNCHANGED <<maxLevels, timezone, isLocked>>
    /\ save
    /\ last' = Call("resetToday", Undef, "void")

\* resetToday()
resetToday ==
    /\ levels' = Zeros
    /\ lastUpdated' = Num(now)
    /\ UNCHANGED <<maxLevels, timezone, dateKey, isLocked>>
    /\ save
    /\ last' = Call("resetToday", Undef, "void")

\* toggleLock that flips the flag only when the write went through
toggleLockAfterWrite ==
    /\ isLocked' = IF WriteOk THEN ~isLocked ELSE isLocked
    /\ UNCHANGED <<levels, maxLevels, timezone, dateKey, lastUpdated>>
    /\ save
    /\ last' = Call("toggleLock", Undef, IF isLocked' THEN "true" ELSE "false")

\* toggleLock()
toggleLock ==
    /\ isLocked' = ~isLocked
    /\ UNCHANGED <<levels, maxLevels, timezone, dateKey, lastUpdated>>
    /\ save
    /\ last' = Call("toggleLock", Undef, IF isLocked' THEN "true" ELSE "false")

\* scheduleMidnightReset that sets the new timer and leaves the pending
\* one running
scheduleMidnightResetNoClear ==
    /\ midnightPending' = midnightPending + 1
    /\ midnightTimer' = "armed"
    /\ midnightDue' = now + msUntilNextMidnight(timezone')

\* scheduleMidnightReset(): clearTimeout of the handle it holds (which
\* removes that timer if it is still pending), then a new timer
scheduleMidnightReset ==
    /\ midnightPending' =
          (IF midnightTimer = "armed" THEN midnightPending - 1
           ELSE midnightPending) + 1
    /\ midnightTimer' = "armed"
    /\ midnightDue' = now + msUntilNextMidnight(timezone')

\* cleanup(): clearTimeout of the two handles. this.visibilityTimer is the
\* handle of the visibility timer set last, which is pending whenever any
\* is (they run in the order they were set, one second after)
cleanup ==
    /\ midnightTimer' = IF midnightTimer = "armed" THEN "cleared"
                        ELSE midnightTimer
    /\ midnightPending' = IF midnightTimer = "armed" THEN midnightPending - 1
                          ELSE midnightPending
    /\ midnightDue' = IF midnightTimer = "armed" THEN 0 ELSE midnightDue
    /\ visPending' = IF visPending > 0 THEN visPending - 1 ELSE 0

\* ------------------------------------------------------------- events
\* the lane a click or a key press hands over: parseInt(dataset.lane),
\* an integer or NaN
LaneArgs == {Num(0 - 1), Num(2), Num(LANES), NaN}

\* ScoreboardRenderer.render(): levels.forEach raises a TypeError when
\* levels is not an array
renderThrows(lv) == lv.t # "array"

\* renderer.render() on the levels lv
rendered(lv) == IF renderThrows(lv) THEN "TypeError" ELSE "done"

\* ScoreboardApp.init() on the app the constructor built: loadOrInit,
\* render, scheduleMidnightReset, the beforeunload listener (the last two
\* not reached when render raises)
init ==
    /\ page = "loading"
    /\ loadOrInit
    /\ last' = Call("loadOrInit", Undef, IF Adopts THEN "true" ELSE "false")
    /\ render' = rendered(levels')
    /\ IF renderThrows(levels')
       THEN UNCHANGED <<midnightTimer, midnightPending, midnightDue>>
       ELSE scheduleMidnightReset
    /\ page' = "running"
    /\ UNCHANGED <<now, store, isLocked, visPending, host>>

\* handleIncrement(lane) from a click or ArrowUp
handleIncrement ==
    /\ page = "running"
    /\ \E lane \in LaneArgs : increment(lane)
    /\ render' = IF last'.ret = "true" THEN "done" ELSE "none"
    /\ UNCHANGED <<page, now, store, timers, host>>

\* handleDecrement(lane) from a click or ArrowDown
handleDecrement ==
    /\ page = "running"
    /\ \E lane \in LaneArgs : decrement(lane)
    /\ render' = IF last'.ret = "true" THEN "done" ELSE "none"
    /\ UNCHANGED <<page, now, store, timers, host>>

\* handleReset() from the confirm button
handleReset ==
    /\ page = "running"
    /\ resetToday
    /\ render' = "done"
    /\ UNCHANGED <<page, now, store, timers, host>>

\* handleToggleLock() from the lock button
handleToggleLock ==
    /\ page = "running"
    /\ toggleLock
    /\ render' = rendered(levels)
    /\ UNCHANGED <<page, now, store, timers, host>>

\* the callback scheduleMidnightReset() set, run once its delay has
\* passed: resetForNewDay(), then this.render(), which ScoreboardState
\* does not have: the TypeError ends the callback before it reaches
\* this.scheduleMidnightReset()
midnightTimerFires ==
    /\ page = "running"
    /\ midnightPending > 0
    /\ now >= midnightDue
    /\ resetForNewDay
    /\ render' = "TypeError"
    /\ last' = Call("midnightTimer", Undef, "void")
    /\ midnightPending' = midnightPending - 1
    /\ midnightTimer' = IF midnightPending = 1 THEN "fired" ELSE midnightTimer
    /\ midnightDue' = IF midnightPending = 1 THEN 0 ELSE midnightDue
    /\ UNCHANGED <<page, now, store, isLocked, visPending, host>>

\* visibilitychange with the page shown again (after one with it hidden,
\* which does nothing): sets a timer of one second and leaves the pending
\* ones running
visibilitychange ==
    /\ page = "running"
    /\ visPending < MaxVis
    /\ visPending' = visPending + 1
    /\ render' = "none"
    /\ last' = Call("visibilitychange", Undef, "void")
    /\ UNCHANGED <<page, now, storage, store, mem, midnightTimer,
                   midnightPending, midnightDue, host>>

\* a visibility callback that rolls over whatever the dates are
visibilityTimerFiresAlways ==
    /\ page = "running"
    /\ visPending > 0
    /\ visPending' = visPending - 1
    /\ resetForNewDay /\ UNCHANGED isLocked /\ render' = "done"
    /\ last' = Call("visibilityTimer", Undef, "void")
    /\ UNCHANGED <<page, now, store, midnightTimer, midnightPending,
                   midnightDue, host>>

\* the callback of a visibility timer
visibilityTimerFires ==
    /\ page = "running"
    /\ visPending > 0
    /\ visPending' = visPending - 1
    /\ IF dateKey # todayKey(timezone)
       THEN resetForNewDay /\ UNCHANGED isLocked /\ render' = "done"
       ELSE UNCHANGED <<mem, storage>> /\ render' = "none"
    /\ last' = Call("visibilityTimer", Undef, "void")
    /\ UNCHANGED <<page, now, store, midnightTimer, midnightPending,
                   midnightDue, host>>

\* beforeunload, on a page whose init() got as far as adding the listener:
\* cleanup(). The document is still there when the listener returns, and
\* stays when the navigation is cancelled or ends in a download
beforeunload ==
    /\ page = "running"
    /\ midnightTimer # "null"
    /\ cleanup
    /\ render' = "none"
    /\ last' = Call("cleanup", Undef, "void")
    /\ UNCHANGED <<page, now, storage, store, mem, host>>

\* the document goes away with its timers, and the next one constructs a
\* new ScoreboardApp
reload ==
    /\ page = "running"
    /\ page' = "loading"
    /\ levels' = Zeros
    /\ maxLevels' = Num(MAX_LEVELS)
    /\ timezone' = TIMEZONE
    /\ dateKey' = ""
    /\ lastUpdated' = Num(now)
    /\ isLocked' = FALSE
    /\ midnightTimer' = "null"
    /\ midnightPending' = 0
    /\ midnightDue' = 0
    /\ visPending' = 0
    /\ render' = "none"
    /\ last' = Call("constructor", Undef, "void")
    /\ UNCHANGED <<now, storage, store, host>>

\* time passes
Tick ==
    /\ now < MaxNow
    /\ now' = now + 1
    /\ render' = "none"
    /\ last' = Call("tick", Undef, "void")
    /\ UNCHANGED <<page, storage, store, mem, timers, host>>

Next ==
    \/ init
    \/ handleIncrement
    \/ handleDecrement
    \/ handleReset
    \/ handleToggleLock
    \/ midnightTimerFires
    \/ visibilitychange
    \/ visibilityTimerFires
    \/ beforeunload
    \/ reload
    \/ Tick

\* scheduleMidnightReset() called on a running page by a caller other
\* than init(), at any time
scheduleMidnightResetCall ==
    /\ page = "running"
    /\ UNCHANGED <<page, now, storage, store, mem, visPending, host>>
    /\ scheduleMidnightReset
    /\ render' = "none"
    /\ last' = Call("scheduleMidnightReset", Undef, "void")

\* the page with further callers of scheduleMidnightReset()
NextCalls ==
    \/ Next
    \/ scheduleMidnightResetCall

\* the page left open: no reload, no visibility change
NextOpen ==
    \/ init
    \/ handleIncrement
    \/ midnightTimerFires
    \/ Tick

\* ------------------------------------------------------------- initial state
\* an array of JSON integer numerals
Ints(s) == KArr([i \in 1..Len(s) |-> KInt(s[i])])

\* a stored object of schema version 1 written at the first instant
Stored(tz, dk, lv, mx) ==
    Blob("object", KInt(1), tz, dk, lv, mx, KInt(StartNow))

\* today's record, as the program writes it
TodaysRecord ==
    Stored(TIMEZONE, DayNames[StartDay + 1], Ints(<<0, 0, 5, 0, 0, 0>>),
           KInt(MAX_LEVELS))

\* what localStorage may hold when the page is first opened
InitialBlobs ==
    { NonObject("absent"),
      NonObject("empty"),
      NonObject("malformed"),
      NonObject("null"),
      NonObject("number"),
      \* the text {}
      Blob("object", KAbsent, "", "", KNoArr("absent"), KAbsent, KAbsent),
      TodaysRecord,
      \* yesterday's and tomorrow's
      Stored(TIMEZONE, DayNames[StartDay], Ints(<<5, 0, 0, 0, 0, 0>>),
             KInt(MAX_LEVELS)),
      Stored(TIMEZONE, DayNames[StartDay + 2], Ints(<<5, 0, 0, 0, 0, 0>>),
             KInt(MAX_LEVELS)),
      \* today's, of another schema version
      Blob("object", KInt(2), TIMEZONE, DayNames[StartDay + 1],
           Ints(<<5, 0, 0, 0, 0, 0>>), KInt(MAX_LEVELS), KInt(StartNow)),
      \* today's, with levels the program would not write and without tz
      \* and maxLevels
      Blob("object", KInt(1), "", DayNames[StartDay + 1],
           Ints(<<0 - 1, 0, 25>>), KAbsent, KAbsent),
      Stored(TIMEZONE, DayNames[StartDay + 1], KNoArr("absent"),
             KInt(MAX_LEVELS)),
      Stored(TIMEZONE, DayNames[StartDay + 1],
             KArr(<<KInt(0), KInt(0), KHuge, KInt(0), KInt(0), KInt(0)>>),
             KInt(MAX_LEVELS)),
      \* today's, of another zone and with another bound
      Stored("America/New_York", DayNames[StartDay + 1],
             Ints(<<2, 0, 3, 0, 0, 1>>), KInt(3)) }

\* the state new ScoreboardApp() leaves, before init()
Constructed ==
    /\ page = "loading"
    /\ now = StartNow
    /\ levels = Zeros
    /\ maxLevels = Num(MAX_LEVELS)
    /\ timezone = TIMEZONE
    /\ dateKey = ""
    /\ lastUpdated = Num(StartNow)
    /\ isLocked = FALSE
    /\ midnightTimer = "null"
    /\ midnightPending = 0
    /\ midnightDue = 0
    /\ visPending = 0
    /\ render = "none"
    /\ last = Call("constructor", Undef, "void")

\* a host in the configured zone, with any stored string and a working
\* store or with a store that fails and nothing or today's record in it; a
\* host in a zone ahead of the configured one, on a first visit
Init ==
    /\ Constructed
    /\ \/ storage \in InitialBlobs /\ store = "ok" /\ host = TIMEZONE
       \/ storage \in {NonObject("absent"), TodaysRecord}
          /\ store \in {"full", "denied"}
          /\ host = TIMEZONE
       \/ storage = NonObject("absent") /\ store = "ok"
          /\ host = "Pacific/Kiritimati"

\* the first visit: nothing stored
InitFresh ==
    /\ Constructed
    /\ storage = NonObject("absent")
    /\ store \in {"ok", "full", "denied"}
    /\ host = TIMEZONE

\* the first visit with a working store
InitOpen ==
    /\ Constructed
    /\ storage = NonObject("absent")
    /\ store = "ok"
    /\ host = TIMEZONE

Spec == Init /\ [][Next]_vars

SpecFresh == InitFresh /\ [][Next]_vars

\* the contract of scheduleMidnightReset() under any number of calls
SpecCalls == InitFresh /\ [][NextCalls]_vars

\* the page left open, with the clock running, DOMContentLoaded delivered
\* and every due timer run
SpecOpen ==
    /\ InitOpen
    /\ [][NextOpen]_vars
    /\ WF_vars(Tick)
    /\ WF_vars(init)
    /\ WF_vars(midnightTimerFires)

\* ------------------------------------------------------------- properties
\* v is an integer between 0 and the bound mx
InBounds(v, mx) ==
    /\ v.t = "number"
    /\ mx.t = "number"
    /\ 0 <= v.n
    /\ v.n <= mx.n

\* lane is an integer index of [0, LANES)
InRange(lane) == lane.t = "number" /\ 0 <= lane.n /\ lane.n < LANES

\* C1: from a first visit with nothing stored, after every call of any
\* sequence of increments, decrements, resets, lock toggles, rollovers and
\* reloads, every lane holds an integer between 0 and maxLevels, which
\* stays 20.
C1_LevelsWithinBounds ==
    /\ levels.t = "array"
    /\ maxLevels = Num(MAX_LEVELS)
    /\ \A i \in 1..LANES : InBounds(levels.a[i], maxLevels)

\* C1: an increment has just raised a lane to maxLevels
C1_Witness ==
    /\ last = Call("increment", Num(2), "true")
    /\ levels.a[3] = Num(MAX_LEVELS)

\* C2: in every state, also right after a stored record was adopted,
\* levels has LANES entries and each is an integer between 0 and maxLevels.
C2_LanesAndBoundsAlways ==
    /\ levels.t = "array"
    /\ Len(levels.a) = LANES
    /\ \A i \in 1..Len(levels.a) : InBounds(levels.a[i], maxLevels)

\* C3: while locked, increment, decrement and resetToday leave levels,
\* dateKey and lastUpdated as they were, and increment and decrement
\* return false.
C3_LockedCallsAreNoOps ==
    [][(isLocked /\ last'.op \in {"increment", "decrement", "resetToday"})
         => /\ levels' = levels
            /\ dateKey' = dateKey
            /\ lastUpdated' = lastUpdated
            /\ last'.op # "resetToday" => last'.ret = "false"]_vars

\* the lane's value, for a lane the array has
Level(lane) == Index(levels, lane)

\* the call is one of the invalid mutations: a lane outside [0, LANES), an
\* increment of a lane at maxLevels, a decrement of a lane at 0
Invalid(op, lane) ==
    \/ ~InRange(lane)
    \/ op = "increment" /\ InRange(lane) /\ Level(lane) = maxLevels
    \/ op = "decrement" /\ InRange(lane) /\ Level(lane) = Num(0)

\* C4: an invalid increment or decrement returns false, raises nothing and
\* leaves levels, dateKey, lastUpdated and the stored record as they were,
\* in every state, also one reached by adopting a stored record.
C4_InvalidCallsReturnFalse ==
    [][(last'.op \in {"increment", "decrement"}
          /\ Invalid(last'.op, last'.lane))
         => /\ last'.ret = "false"
            /\ levels' = levels
            /\ dateKey' = dateKey
            /\ lastUpdated' = lastUpdated
            /\ storage' = storage]_vars

\* the lane holds an integer below (above) the bound, both being integers
Below(lane) ==
    /\ Level(lane).t = "number"
    /\ maxLevels.t = "number"
    /\ Level(lane).n < maxLevels.n
Above(lane) == Level(lane).t = "number" /\ Level(lane).n > 0

\* levels with the lane's entry moved by d and every other entry kept
Moved(lane, d) ==
    Arr([i \in 1..Len(levels.a) |->
            IF i = lane.n + 1 THEN Num(levels.a[i].n + d) ELSE levels.a[i]])

\* C5: an unlocked increment of a lane in range whose value is below
\* maxLevels raises that lane by exactly 1, keeps every other lane and
\* dateKey, and returns true; at maxLevels it returns false and keeps
\* levels (so k increments from 0 leave min(k, maxLevels), the 21st
\* returning false). decrement is the same with -1 and the bound 0.
C5_StepByOne ==
    [][/\ (last'.op = "increment" /\ ~isLocked /\ InRange(last'.lane)
             /\ Level(last'.lane).t = "number" /\ maxLevels.t = "number")
          => IF Below(last'.lane)
             THEN /\ levels' = Moved(last'.lane, 1)
                  /\ dateKey' = dateKey
                  /\ last'.ret = "true"
             ELSE /\ levels' = levels
                  /\ last'.ret = "false"
       /\ (last'.op = "decrement" /\ ~isLocked /\ InRange(last'.lane)
             /\ Level(last'.lane).t = "number")
          => IF Above(last'.lane)
             THEN /\ levels' = Moved(last'.lane, 0 - 1)
                  /\ dateKey' = dateKey
                  /\ last'.ret = "true"
             ELSE /\ levels' = levels
                  /\ last'.ret = "false"]_vars

\* C5: the increment of a lane that already holds 20 has returned false
C5_Witness ==
    /\ last = Call("increment", Num(2), "false")
    /\ ~isLocked
    /\ maxLevels = Num(MAX_LEVELS)
    /\ levels = Arr(<<Num(0), Num(0), Num(MAX_LEVELS), Num(0), Num(0), Num(0)>>)

\* the stored string is an object whose levels are LANES zeros and whose
\* dateKey is dk
StoredZeros(blob, dk) ==
    /\ blob.kind = "object"
    /\ blob.dateKey = dk
    /\ blob.levels = Ints(<<0, 0, 0, 0, 0, 0>>)

\* the step ran resetForNewDay(): the midnight callback, a visibility
\* callback that found another day, or a loadOrInit that returned false
RollsOver ==
    \/ last'.op = "midnightTimer"
    \/ last'.op = "visibilityTimer" /\ dateKey # todayKey(timezone)
    \/ last' = Call("loadOrInit", Undef, "false")

\* C6: resetToday() zeroes every lane and keeps dateKey, also when dateKey
\* is not today's; resetForNewDay() zeroes every lane and sets dateKey to
\* todayKey(); both write the result to the store (which keeps it unless
\* setItem fails).
C6_ResetsZeroLanes ==
    [][/\ last'.op = "resetToday"
          => /\ levels' = Zeros
             /\ dateKey' = dateKey
             /\ store = "ok" => StoredZeros(storage', dateKey)
       /\ RollsOver
          => /\ levels' = Zeros
             /\ dateKey' = todayKey(timezone)
             /\ store = "ok" => StoredZeros(storage', todayKey(timezone))]_vars

\* C6: resetToday() has run on a day later than dateKey's and was stored
C6_Witness ==
    /\ last.op = "resetToday"
    /\ dateKey # todayKey(timezone)
    /\ levels = Zeros
    /\ StoredZeros(storage, dateKey)

\* the stored string parses to a record of today and of version 1
Current(blob) ==
    /\ blob.kind = "object"
    /\ blob.dateKey = DayNames[DayOf(now, TIMEZONE) + 1]
    /\ blob.version = KInt(1)

\* C7: loadOrInit returns true and takes the record's levels exactly when
\* the string it read parses to a record of today's dateKey and version 1;
\* otherwise it returns false and leaves all lanes 0 with dateKey today.
C7_AdoptsOnlyCurrentRecord ==
    [][last'.op = "loadOrInit"
         => IF ReadOk /\ Current(storage)
            THEN /\ last'.ret = "true"
                 /\ levels' = ParseLevels(storage.levels)
                 /\ dateKey' = storage.dateKey
            ELSE /\ last'.ret = "false"
                 /\ levels' = Zeros
                 /\ dateKey' = DayNames[DayOf(now, TIMEZONE) + 1]]_vars

\* C7: a version 1 record of an earlier day with scores in it was read and
\* not adopted
C7_Witness ==
    /\ last = Call("loadOrInit", Undef, "false")
    /\ store = "full"
    /\ storage = TodaysRecord
    /\ storage.dateKey # todayKey(timezone)
    /\ levels = Zeros
    /\ dateKey = todayKey(timezone)

\* C8: for the state of a running page whose dateKey is today's, the
\* record save() writes is adopted by loadOrInit() on a new state object
\* and gives back the same levels, maxLevels and timezone.
C8_RoundTrip ==
    (page = "running" /\ dateKey = DayNames[DayOf(now, TIMEZONE) + 1])
      => LET written == Record(timezone, dateKey, levels, maxLevels)
         IN  /\ Current(written)
             /\ adopted(written).levels = levels
             /\ adopted(written).maxLevels = maxLevels
             /\ adopted(written).timezone = timezone

\* the read fails, or what was read is no string, an empty one, one that
\* does not parse, the text null or a value without the record's members
Unusable ==
    \/ ~ReadOk
    \/ storage.kind # "object"
    \/ storage.dateKey = ""
    \/ storage.version = KAbsent

\* C9: when the read fails or the string is missing, malformed or parses
\* to a value without the expected members, loadOrInit raises nothing,
\* returns false and leaves all lanes 0 with dateKey today, whether or not
\* the write that follows fails.
C9_LoadFallsBack ==
    [][(last'.op = "loadOrInit" /\ Unusable)
         => /\ last'.ret = "false"
            /\ levels' = Zeros
            /\ dateKey' = DayNames[DayOf(now, TIMEZONE) + 1]
            /\ page' = "running"]_vars

\* C9: the read failed, the write after it failed too, and the state is a
\* fresh day's
C9_Witness ==
    /\ last = Call("loadOrInit", Undef, "false")
    /\ store = "denied"
    /\ storage = TodaysRecord
    /\ levels = Zeros
    /\ dateKey = todayKey(timezone)

\* C10: with setItem failing, an increment or decrement of a lane in range
\* and inside its bounds still moves the lane and returns true, the resets
\* still zero the lanes, toggleLock still flips the flag, and no call
\* raises.
C10_WriteFailureKeepsMutation ==
    [][store # "ok"
         => /\ (last'.op = "increment" /\ ~isLocked /\ InRange(last'.lane)
                  /\ Below(last'.lane))
               => levels' = Moved(last'.lane, 1) /\ last'.ret = "true"
            /\ (last'.op = "decrement" /\ ~isLocked /\ InRange(last'.lane)
                  /\ Above(last'.lane))
               => levels' = Moved(last'.lane, 0 - 1) /\ last'.ret = "true"
            /\ (last'.op = "resetToday" \/ RollsOver) => levels' = Zeros
            /\ last'.op = "toggleLock"
               => /\ isLocked' = ~isLocked
                  /\ last'.ret = IF isLocked THEN "false" ELSE "true"
            /\ last'.ret # "throw"]_vars

\* C10: the lock was set while the store kept nothing
C10_Witness ==
    /\ last = Call("toggleLock", Undef, "true")
    /\ store = "full"
    /\ isLocked
    /\ storage = NonObject("absent")

\* C11: every run of the midnight callback performs the rollover and
\* leaves the scheduler armed again, with one midnight timer pending.
C11_FireRearms ==
    [][last'.op = "midnightTimer"
         => /\ levels' = Zeros
            /\ dateKey' = todayKey(timezone)
            /\ midnightTimer' = "armed"
            /\ midnightPending' = 1]_vars

\* the number of the day a dateKey names (0 for a string that names none)
DayNumber(dk) ==
    IF \E i \in 1..Len(DayNames) : DayNames[i] = dk
    THEN CHOOSE i \in 1..Len(DayNames) : DayNames[i] = dk
    ELSE 0

\* the step is a rollover by one of the two timers: the midnight callback,
\* or a visibility callback that found another day
TimerRollsOver ==
    \/ last'.op = "midnightTimer"
    \/ last'.op = "visibilityTimer" /\ dateKey # todayKey(timezone)

\* C12: every rollover by the midnight callback or by a visibility check
\* moves dateKey to a strictly later day, so that no second rollover zeroes
\* the lanes within the day the first one entered.
C12_RolloverOncePerDay ==
    [][TimerRollsOver => DayNumber(dateKey') > DayNumber(dateKey)]_vars

\* the page is open on a day other than the one dateKey names
Stale == page = "running" /\ dateKey # todayKey(timezone)

\* C13: on a page left open, whenever the day has changed the state
\* eventually has dateKey = todayKey() again, after every boundary.
C13_RolloverEveryDay == Stale ~> (dateKey = todayKey(timezone))

\* C14: when cleanup() has run, no midnight timer and no visibility timer
\* is pending, whatever was armed before it.
C14_CleanupCancelsAll ==
    last.op = "cleanup" => midnightPending = 0 /\ visPending = 0

\* C15: at most one midnight timer is pending in every state, however
\* often and whenever scheduleMidnightReset() is called.
C15_OneMidnightTimer == midnightPending <= 1

\* C15: scheduleMidnightReset() was called again while the timer init() had
\* set could not yet have run, and one timer is pending
C15_Witness ==
    /\ last.op = "scheduleMidnightReset"
    /\ now = StartNow
    /\ midnightTimer = "armed"
    /\ midnightPending = 1
    /\ midnightDue > now

\* C16: at most one visibility timer is pending in every state: an event
\* that arrives while one is pending replaces it.
C16_OneVisibilityTimer == visPending <= 1

\* C17: a visibility callback that finds dateKey other than todayKey()
\* zeroes every lane, sets dateKey to todayKey(), writes that to the store
\* (which keeps it unless setItem fails) and renders; one that finds them
\* equal leaves levels, dateKey, lastUpdated and the stored string as they
\* were and does not render.
C17_ReconciliationCheck ==
    [][last'.op = "visibilityTimer"
         => IF dateKey # todayKey(timezone)
            THEN /\ levels' = Zeros
                 /\ dateKey' = todayKey(timezone)
                 /\ store = "ok" => StoredZeros(storage', todayKey(timezone))
                 /\ render' = "done"
            ELSE /\ levels' = levels
                 /\ dateKey' = dateKey
                 /\ lastUpdated' = lastUpdated
                 /\ storage' = storage
                 /\ render' = "none"]_vars

\* C17: a visibility callback has rolled the day over, stored it and
\* rendered
C17_Witness ==
    /\ last.op = "visibilityTimer"
    /\ render = "done"
    /\ levels = Zeros
    /\ dateKey = todayKey(timezone)
    /\ dateKey # DayNames[StartDay + 1]
    /\ StoredZeros(storage, dateKey)

\* the stored string is a record of version 1 whose levels, dateKey,
\* maxLevels and tz are the state's
Tracks ==
    /\ storage.kind = "object"
    /\ storage.version = KInt(1)
    /\ ParseLevels(storage.levels) = levels
    /\ storage.dateKey = dateKey
    /\ ParseTok(storage.maxLevels) = maxLevels
    /\ storage.tz = timezone

\* the latest step was loadOrInit, an increment or decrement that returned
\* true, resetToday, toggleLock or a resetForNewDay of one of the timers
Settled ==
    \/ last.op \in {"loadOrInit", "resetToday", "toggleLock", "midnightTimer"}
    \/ last.op \in {"increment", "decrement"} /\ last.ret = "true"
    \/ last.op = "visibilityTimer" /\ render = "done"

\* C18: with a store that takes every write, after loadOrInit and after
\* every successful mutation the stored record is of version 1 and holds the
\* state's levels, dateKey, maxLevels and timezone.
C18_StoreTracksState == (store = "ok" /\ Settled) => Tracks

\* C19: an increment or decrement succeeds only while dateKey names
\* today's date of the state's zone, also between a midnight and the
\* rollover that follows it.
C19_NoScoreOnStaleDay ==
    [][(last'.op \in {"increment", "decrement"} /\ last'.ret = "true")
         => dateKey = todayKey(timezone)]_vars

\* C20: a rollover by either timer zeroes every lane and sets dateKey to
\* todayKey() whether or not the board is locked, and keeps isLocked;
\* toggleLock flips isLocked, returns its new value and keeps levels,
\* dateKey and lastUpdated; the stored record has no lock member, so every
\* loadOrInit of a new state leaves it unlocked.
C20_LockIsRuntimeOnly ==
    [][/\ TimerRollsOver
          => /\ levels' = Zeros
             /\ dateKey' = todayKey(timezone)
             /\ isLocked' = isLocked
       /\ last'.op = "toggleLock"
          => /\ isLocked' = ~isLocked
             /\ last'.ret = IF isLocked' THEN "true" ELSE "false"
             /\ levels' = levels
             /\ dateKey' = dateKey
             /\ lastUpdated' = lastUpdated
       /\ last'.op = "loadOrInit" => ~isLocked']_vars

\* C20: the midnight callback has rolled a locked board over to a later
\* day and left it locked
C20_Witness ==
    /\ last.op = "midnightTimer"
    /\ isLocked
    /\ levels = Zeros
    /\ dateKey = todayKey(timezone)
    /\ dateKey # DayNames[StartDay + 1]
    /\ lastUpdated = Num(now)
====
